---- MODULE Spec2Model ----
(***************************************************************************)
(* The research-article backend of mukbiomedssa-research.  The repository  *)
(* holds the same REST backend several times over; the state machine below *)
(* runs one of them, chosen in the initial state:                          *)
(*   "cloud10"  in-memory collections, snapshot to Cloudinary, 10 s timer  *)
(*              (src/unnamed/part_000)                                     *)
(*   "cloud30"  the same with a 30 s timer and an upload that is not       *)
(*              awaited (src/Muk-backend/index.js 868-1197)                *)
(*   "file"     flat JSON files, synchronous handlers                      *)
(*              (src/Muk-backend/index.js 491-867)                         *)
(*   "mongo"    MongoDB through mongoose: its config and push subscription *)
(*              routes (src/Muk-backend/index.js 1-489)                    *)
(* A JavaScript object is a function from its keys (strings) to values; a  *)
(* property whose value is undefined holds Undef.  JSON text is modelled   *)
(* by the document JSON.parse would return for it, so JSON.stringify is    *)
(* the map that drops the undefined properties and JSON.parse is the       *)
(* identity on what parses.                                                *)
(***************************************************************************)
EXTENDS Integers, Sequences, FiniteSets, TLC

\* Bounds of the model.
MaxClock == 2        \* Date.now() returns values in 1..MaxClock
MaxEvents == 2       \* requests, timer firings and restarts in one run
DeepEvents == 3      \* the same, for the runs that look for id collisions

VARIABLES
  variant,            \* which of the implementations runs
  phase,              \* "loading" (hydrate in progress) | "serving" |
                      \* "stopping" | "exiting" | "exited" (after SIGTERM)
  hydr,               \* position in loadDataFromCloudinary
  users,              \* let users / users.json
  articles,           \* let articles / articles.json
  config,             \* let config / config.json
  understanding,      \* let understanding / understanding.json
  pushSubscriptions,  \* let pushSubscriptions
  remote,             \* the raw object muk-data/database: <<>> or <<blob>>
  uploads,            \* upload_stream calls in flight
  pending,            \* handlers suspended at await saveDataToCloudinary()
  clock,              \* the value Date.now() returned last
  last,               \* the latest handler step: request and response
  nev,                \* requests, timer firings and restarts so far
  budget,             \* how many of them this run may see
  nup,                \* upload_stream calls so far: names the uploads
  db                  \* the MongoDB collections of the "mongo" implementation

vars == <<variant, phase, hydr, users, articles, config, understanding,
          pushSubscriptions, remote, uploads, pending, clock, last,
          nev, budget, nup, db>>

store == <<users, articles, config, understanding, pushSubscriptions>>

Variants == {"cloud10", "cloud30", "file"}
IsCloud == variant \in {"cloud10", "cloud30"}

-----------------------------------------------------------------------------
\* JavaScript values

Undef == "\\undefined"
EmptyObject == [k \in {} |-> 0]

\* !v for the string-valued request fields
Falsy(v) == v = Undef \/ v = ""

\* the properties that can hold undefined: the text fields of a multipart body
BodyFields == {"title", "category", "description", "authors", "institution",
               "publicationDate"}

\* { ...a, ...b }
Spread(a, b) == b @@ a

\* o[k] of JavaScript: undefined for a missing property
Prop(o, k) == IF k \in DOMAIN o THEN o[k] ELSE Undef

\* JSON.stringify of one object: properties holding undefined are omitted
StringifyObject(o) ==
  [k \in {j \in DOMAIN o : ~(j \in BodyFields /\ o[j] = Undef)} |-> o[k]]

StringifyArray(s) == [i \in 1..Len(s) |-> StringifyObject(s[i])]

DefaultConfig ==
  [app_title |-> "MUK-BIOMEDSSA", app_subtitle |-> "Research App",
   welcome_message |-> "Stay Updated", primary_color |-> "#0D7377",
   secondary_color |-> "#f8fafc", accent_color |-> "#16a34a",
   text_color |-> "#1e293b", about_description |-> "To provide",
   font_family |-> "Plus Jakarta Sans", font_size |-> 16,
   contact_email |-> "biomedssa@muk.ac.zm",
   contact_location |-> "Mukuba University, Kitwe", contact_website |-> ""]

\* the four collections as one value
Mem(u, a, c, un) == [users |-> u, articles |-> a, config |-> c, understanding |-> un]

DefaultMem == Mem(<<>>, <<>>, DefaultConfig, EmptyObject)

\* JSON.stringify({ users, articles, config, understanding, lastUpdated });
\* the 30 s variant writes no lastUpdated
StringifyData(m, now) ==
  [parses |-> TRUE,
   doc |-> IF variant = "cloud30"
           THEN [users |-> StringifyArray(m.users),
                 articles |-> StringifyArray(m.articles),
                 config |-> StringifyObject(m.config),
                 understanding |-> m.understanding]
           ELSE [users |-> StringifyArray(m.users),
                 articles |-> StringifyArray(m.articles),
                 config |-> StringifyObject(m.config),
                 understanding |-> m.understanding,
                 lastUpdated |-> now]]

\* a body that is not JSON (an error page of the CDN, a truncated download)
Garbage == [parses |-> FALSE, doc |-> EmptyObject]

\* a user record left by an earlier deployment
OldUser == [id |-> 0, name |-> "O", email |-> "o@x", password |-> "secret0",
            createdAt |-> 0]

\* the object muk-data/database as the remote store holds it: its text, and
\* for a text that saveDataToCloudinary wrote the collections it was taken
\* from and the push subscriptions of that instant (history only: no
\* handler reads taken, push or by)
GarbageBlob == [text |-> Garbage, taken |-> DefaultMem, push |-> <<>>, by |-> "other"]

\* a snapshot that was not written by this saveDataToCloudinary and holds
\* the users key alone: { "users": [ ... ] }
ForeignBlob == [text |-> [parses |-> TRUE, doc |-> [users |-> <<OldUser>>]],
                taken |-> DefaultMem, push |-> <<>>, by |-> "other"]

\* the MongoDB collections of the mongo implementation that the model
\* follows: the Config, the PushSubscription and the Understanding documents
EmptyDb == [configs |-> <<>>, subs |-> <<>>, understandings |-> <<>>]

-----------------------------------------------------------------------------
\* Request inputs

\* req.params.id: the decimal digits of n, followed by a letter when junk
Params == [n : 0..MaxClock, junk : {FALSE}] \cup {[n |-> 1, junk |-> TRUE]}

\* Number(req.params.id) is NaN for a text with a letter: a.id == req.params.id
LooseEq(id, p) == ~p.junk /\ id = p.n

\* parseInt(req.params.id) reads the leading digits: a.id === parseInt(...)
ParseIntEq(id, p) == id = p.n

IdMatches(id, p) == IF variant = "file" THEN ParseIntEq(id, p) ELSE LooseEq(id, p)

ArticleBody(t, c, d) ==
  [title |-> t, category |-> c, description |-> d, authors |-> Undef,
   institution |-> Undef, publicationDate |-> Undef]

ArticleBodies == {ArticleBody("A", "C", "d"), ArticleBody("B", "C", Undef),
                  ArticleBody(Undef, "C", Undef)}

\* req.file of multer: none, or one uploaded PDF
NoFile == [present |-> FALSE, originalname |-> "", url |-> Undef, path |-> "",
           filename |-> "", size |-> 0]
Pdf == [present |-> TRUE, originalname |-> "p.pdf", url |-> Undef,
        path |-> "cdn/p.pdf", filename |-> "1-p.pdf", size |-> 7]
Files == {NoFile, Pdf}

\* the multipart requests of POST /articles and PUT /articles/:id
PostInputs == {<<ArticleBody("A", "C", "d"), NoFile>>,
               <<ArticleBody("B", "C", Undef), Pdf>>,
               <<ArticleBody(Undef, "C", Undef), NoFile>>}
PutInputs == {<<ArticleBody("B", "C", Undef), NoFile>>,
              <<ArticleBody(Undef, "K", "e"), Pdf>>}

-----------------------------------------------------------------------------
\* Lookups

\* FindIndex of an implementation that falls back to the last element
FindIndexOrLast(s, p) ==
  IF \E i \in 1..Len(s) : IdMatches(s[i].id, p)
  THEN CHOOSE i \in 1..Len(s) :
         /\ IdMatches(s[i].id, p)
         /\ \A j \in 1..(i - 1) : ~IdMatches(s[j].id, p)
  ELSE Len(s)

\* articles.findIndex(a => a.id == req.params.id); 0 stands for -1
FindIndex(s, p) ==
  IF \E i \in 1..Len(s) : IdMatches(s[i].id, p)
  THEN CHOOSE i \in 1..Len(s) :
         /\ IdMatches(s[i].id, p)
         /\ \A j \in 1..(i - 1) : ~IdMatches(s[j].id, p)
  ELSE 0

\* s.splice(i, 1)
Splice(s, i) == [j \in 1..(Len(s) - 1) |-> IF j < i THEN s[j] ELSE s[j + 1]]

\* the observation of a handler step: the request, and what was answered
Obs(op, step, status, req, body) ==
  [op |-> op, step |-> step, status |-> status, req |-> req, body |-> body]

\* req.body of POST /auth/register
RegisterBody(n, e, p) == [name |-> n, email |-> e, password |-> p]

RegisterBodies == {RegisterBody("N", "a@x", "secret1"), RegisterBody("M", "b@x", "secret2"),
                   RegisterBody("N", "a@x", "pw"), RegisterBody(Undef, "b@x", "secret1")}

\* password.length
StrLen(p) == CASE p = "pw" -> 2
               [] p = Undef -> 0
               [] OTHER -> 7

MinPassword == 6

\* req.body of POST /config: any JSON object
ConfigPayloads == {[app_title |-> "T2"], [font_size |-> 18, contact_website |-> "w"],
                   [extra |-> "e"], EmptyObject}

\* req.params.articleId, req.body.summary and req.files of POST /understanding
UKeys == {"1", "7"}
Note == [present |-> TRUE, originalname |-> "n.pdf", url |-> Undef,
         path |-> "cdn/n.pdf", filename |-> "2-n.pdf", size |-> 9]
\* the multipart requests of POST /understanding/:articleId
UnderstandingInputs == {<<Undef, <<>>>>, <<"s", <<Pdf>>>>, <<"t", <<Note, Pdf>>>>}

-----------------------------------------------------------------------------
\* Initial state: the module has been loaded, the timer is armed, and (cloud
\* variants) loadDataFromCloudinary() has been called; the server listens
\* once it returns.  The file variant listens at once.

Boot(vs, b) ==
  /\ variant \in vs
  /\ budget = b
  /\ phase = IF IsCloud THEN "loading" ELSE "serving"
  /\ hydr = IF IsCloud THEN "resource" ELSE "done"
  /\ users = <<>>
  /\ articles = <<>>
  /\ config = DefaultConfig
  /\ understanding = EmptyObject
  /\ pushSubscriptions = <<>>
  /\ remote \in IF IsCloud THEN {<<>>, <<ForeignBlob>>} ELSE {<<>>}
  /\ uploads = {}
  /\ pending = {}
  /\ clock = 1
  /\ last = Obs("start", "response", 0, EmptyObject, EmptyObject)
  /\ nev = 0
  /\ nup = 0
  /\ db = EmptyDb

\* the values Date.now() can return to the handler that calls it next: the
\* clock does not go back, and need not have advanced since the last call
Now == {t \in {clock, clock + 1} : t <= MaxClock}

-----------------------------------------------------------------------------
\* saveDataToCloudinary / writeJSON

\* the upload saveDataToCloudinary starts for the collections m: the text is
\* built by JSON.stringify before the upload is awaited.  taken records the
\* collections and push the push subscriptions at that instant (history
\* only: no handler reads them).
NewUpload(m) ==
  [id |-> nup + 1, text |-> StringifyData(m, clock'), taken |-> m,
   push |-> pushSubscriptions]

\* what a collection holds after a handler stored s: the cloud variants keep
\* the objects, the file variant keeps what JSON.stringify wrote to the file
Stored(s) == IF variant = "file" THEN StringifyArray(s) ELSE s

\* the tail of every mutating handler, entered with the collections primed:
\* save, then respond (cloud10 responds when the awaited upload has ended)
SaveAndRespond(op, req, rec, index, body) ==
  /\ nev' = nev + 1
  /\ IF IsCloud
     THEN /\ uploads' = uploads \cup
                {NewUpload(Mem(users', articles', config', understanding'))}
          /\ nup' = nup + 1
     ELSE UNCHANGED <<uploads, nup>>
  /\ IF variant = "cloud10"
     THEN /\ pending' = pending \cup
                {[op |-> op, upload |-> nup + 1, req |-> req, rec |-> rec,
                  index |-> index]}
          /\ last' = Obs(op, "await", 0, req, rec)
     ELSE /\ pending' = pending
          /\ last' = Obs(op, "response", 200, req, body)
  /\ UNCHANGED <<variant, db, phase, hydr, remote, budget>>

\* a handler that returns an error status before it changes anything
Reject(op, status, req) ==
  /\ last' = Obs(op, "response", status, req, EmptyObject)
  /\ nev' = nev + 1
  /\ UNCHANGED <<variant, db, phase, hydr, store, remote, uploads, pending, clock,
                 budget, nup>>

\* Accepting of a server whose app.listen is called when the module loads
AcceptingAtOnce == nev < budget

\* app.listen is called in the then() of loadDataFromCloudinary(), which
\* resolves on both paths of its try/catch
Accepting == phase = "serving" /\ nev < budget

-----------------------------------------------------------------------------
\* Articles

NewArticle(b, f) ==
  LET common == [id |-> clock', title |-> b.title, category |-> b.category,
                 description |-> b.description, authors |-> b.authors,
                 institution |-> b.institution,
                 publicationDate |-> b.publicationDate,
                 pdfFile |-> f.present, createdAt |-> clock']
  IN CASE variant = "cloud10" ->
            common @@ [pdfName |-> IF f.present THEN f.originalname ELSE "",
                       pdfUrl |-> IF ~f.present THEN ""
                                  ELSE IF Falsy(f.url) THEN f.path ELSE f.url]
       [] variant = "cloud30" ->
            common @@ [pdfName |-> IF f.present THEN f.originalname ELSE "",
                       pdfUrl |-> IF f.present THEN f.path ELSE ""]
       [] OTHER ->
            common @@ [pdfName |-> IF f.present THEN f.filename ELSE ""]

\* app.post('/articles')
PostArticles(b, f, now) ==
  /\ Accepting
  /\ IF variant = "cloud10" /\ (Falsy(b.title) \/ Falsy(b.category))
     THEN Reject("POST /articles", 400, [b |-> b, f |-> f])
     ELSE /\ clock' = now
          /\ articles' = Stored(Append(articles, NewArticle(b, f)))
          /\ UNCHANGED <<users, config, understanding, pushSubscriptions>>
          /\ SaveAndRespond("POST /articles", [b |-> b, f |-> f], NewArticle(b, f),
                            0, StringifyObject(NewArticle(b, f)))

\* { ...articles[index], title, ..., ...(req.file && {...}) }
UpdatedArticle(a, b, f) ==
  LET fields == Spread(a, b)
  IN IF ~f.present THEN fields
     ELSE IF variant = "file"
          THEN Spread(fields, [pdfName |-> f.filename, pdfFile |-> TRUE])
          ELSE Spread(fields,
                 [pdfName |-> f.originalname,
                  pdfUrl |-> IF variant = "cloud10" /\ ~Falsy(f.url)
                             THEN f.url ELSE f.path,
                  pdfFile |-> TRUE])

\* app.put('/articles/:id')
PutArticle(p, b, f, now) ==
  /\ Accepting
  /\ LET index == FindIndex(articles, p)
     IN IF index = 0
        THEN Reject("PUT /articles/:id", 404, [p |-> p, b |-> b, f |-> f])
        ELSE /\ clock' = now
             /\ articles' = Stored([articles EXCEPT
                                      ![index] = UpdatedArticle(@, b, f)])
             /\ UNCHANGED <<users, config, understanding, pushSubscriptions>>
             /\ SaveAndRespond("PUT /articles/:id", [p |-> p, b |-> b, f |-> f],
                               articles'[index], index,
                               StringifyObject(articles'[index]))

\* app.delete('/articles/:id')
DeleteArticle(p, now) ==
  /\ Accepting
  /\ LET index == FindIndex(articles, p)
     IN IF index = 0
        THEN Reject("DELETE /articles/:id", 404, [p |-> p])
        ELSE /\ clock' = now
             /\ articles' = Stored(Splice(articles, index))
             /\ UNCHANGED <<users, config, understanding, pushSubscriptions>>
             /\ SaveAndRespond("DELETE /articles/:id", [p |-> p], articles[index],
                               index, EmptyObject)

\* what GET /articles/:id answers in the current state
ArticleById(p) ==
  LET index == FindIndex(articles, p)
  IN IF index = 0 THEN [status |-> 404, body |-> EmptyObject]
     ELSE [status |-> 200, body |-> StringifyObject(articles[index])]

\* app.get('/articles/:id')
GetArticle(p) ==
  /\ variant # "mongo"
  /\ Accepting
  /\ last' = Obs("GET /articles/:id", "response", ArticleById(p).status,
                 [p |-> p], ArticleById(p).body)
  /\ nev' = nev + 1
  /\ UNCHANGED <<variant, db, phase, hydr, store, remote, uploads, pending, clock,
                 budget, nup>>

-----------------------------------------------------------------------------
\* Users

NewUser(b) ==
  [id |-> IF variant = "file" THEN Len(users) + 1 ELSE clock',
   name |-> b.name, email |-> b.email, password |-> b.password,
   createdAt |-> clock']

\* WithoutPassword of a handler that answers the stored record
WithPassword(u) == u

\* const { password: _, ...userWithoutPassword } = user
WithoutPassword(u) == [k \in DOMAIN u \ {"password"} |-> u[k]]

\* EmailTaken of a handler that does not look for the email
EmailNeverTaken(b) == FALSE

\* users.find(u => u.email === email)
EmailTaken(b) == \E i \in 1..Len(users) : users[i].email = b.email

\* app.post('/auth/register')
Register(b, now) ==
  /\ Accepting
  /\ IF \/ Falsy(b.name) \/ Falsy(b.email) \/ Falsy(b.password)
        \/ StrLen(b.password) < MinPassword
        \/ EmailTaken(b)
     THEN Reject("POST /auth/register", 400, [b |-> b])
     ELSE /\ clock' = now
          /\ users' = Stored(Append(users, NewUser(b)))
          /\ UNCHANGED <<articles, config, understanding, pushSubscriptions>>
          /\ SaveAndRespond("POST /auth/register", [b |-> b], NewUser(b), 0,
                            WithoutPassword(NewUser(b)))

\* req.body of POST /auth/login
LoginBody(e, p) == [email |-> e, password |-> p]

LoginBodies == {LoginBody("a@x", "secret1"), LoginBody("a@x", "secret2"),
                LoginBody("b@x", "secret2"), LoginBody(Undef, "secret1")}

\* Credentials of a handler that compares the email alone
CredentialsByEmail(u, b) == u.email = b.email

\* u.email === email && u.password === password
Credentials(u, b) == u.email = b.email /\ u.password = b.password

\* what POST /auth/login answers in the current state
LoginResponse(b) ==
  IF Falsy(b.email) \/ Falsy(b.password)
  THEN [status |-> 400, body |-> EmptyObject]
  ELSE IF \E i \in 1..Len(users) : Credentials(users[i], b)
       THEN [status |-> 200,
             body |-> WithoutPassword(
                        users[CHOOSE i \in 1..Len(users) :
                                /\ Credentials(users[i], b)
                                /\ \A j \in 1..(i - 1) : ~Credentials(users[j], b)])]
       ELSE [status |-> 401, body |-> EmptyObject]

\* app.post('/auth/login')
Login(b) ==
  /\ variant # "mongo"
  /\ Accepting
  /\ last' = Obs("POST /auth/login", "response", LoginResponse(b).status,
                 [b |-> b], LoginResponse(b).body)
  /\ nev' = nev + 1
  /\ UNCHANGED <<variant, db, phase, hydr, store, remote, uploads, pending, clock,
                 budget, nup>>

\* req.headers['user-id'] of GET /auth/verify: absent, or a string
UserIdHeaders ==
  {[present |-> FALSE, n |-> 0, junk |-> FALSE]} \cup
  {[present |-> TRUE, n |-> p.n, junk |-> p.junk] : p \in Params}

\* what GET /auth/verify answers in the current state:
\* users.find(u => u.id === parseInt(userId))
VerifyResponse(h) ==
  IF ~h.present
  THEN [status |-> 401, body |-> EmptyObject]
  ELSE IF \E i \in 1..Len(users) : ParseIntEq(users[i].id, h)
       THEN [status |-> 200,
             body |-> WithoutPassword(
                        users[CHOOSE i \in 1..Len(users) :
                                /\ ParseIntEq(users[i].id, h)
                                /\ \A j \in 1..(i - 1) : ~ParseIntEq(users[j].id, h)])]
       ELSE [status |-> 401, body |-> EmptyObject]

\* app.get('/auth/verify'): a route of the file variant alone
Verify(h) ==
  /\ variant = "file"
  /\ Accepting
  /\ last' = Obs("GET /auth/verify", "response", VerifyResponse(h).status,
                 [h |-> h], VerifyResponse(h).body)
  /\ nev' = nev + 1
  /\ UNCHANGED <<variant, db, phase, hydr, store, remote, uploads, pending, clock,
                 budget, nup>>

\* app.delete('/users/:id'): a route of the cloud10 variant alone
DeleteUser(p, now) ==
  /\ variant = "cloud10"
  /\ Accepting
  /\ LET index == FindIndex(users, p)
     IN IF index = 0
        THEN Reject("DELETE /users/:id", 404, [p |-> p])
        ELSE /\ clock' = now
             /\ users' = Splice(users, index)
             /\ UNCHANGED <<articles, config, understanding, pushSubscriptions>>
             /\ SaveAndRespond("DELETE /users/:id", [p |-> p], users[index], index,
                               EmptyObject)

-----------------------------------------------------------------------------
\* Config

\* the config the handler stores for the request body b: the cloud variants
\* spread the body over the current config, the file variant writes the body
UpdatedConfig(b) == IF variant = "file" THEN b ELSE Spread(config, b)

\* app.post('/config')
PostConfig(b, now) ==
  /\ Accepting
  /\ clock' = now
  /\ config' = UpdatedConfig(b)
  /\ UNCHANGED <<users, articles, understanding, pushSubscriptions>>
  /\ SaveAndRespond("POST /config", [b |-> b], b, 0, config')

-----------------------------------------------------------------------------
\* Understanding materials

\* req.files.map(file => ({ ... }))
Material(f) ==
  IF variant = "file"
  THEN [name |-> f.originalname, size |-> f.size, filename |-> f.filename]
  ELSE [name |-> f.originalname, url |-> f.path, size |-> f.size]

Materials(fs) == [i \in 1..Len(fs) |-> Material(fs[i])]

\* { summary: summary || '', materials }
UnderstandingEntry(summary, fs) ==
  [summary |-> IF Falsy(summary) THEN "" ELSE summary, materials |-> Materials(fs)]

\* SetEntry of a handler that adds the new materials to the stored ones
SetEntryAppend(un, key, entry) ==
  (key :> [summary |-> entry.summary,
           materials |-> (IF key \in DOMAIN un THEN un[key].materials ELSE <<>>)
                           \o entry.materials]) @@ un

\* understanding[articleId] = entry
SetEntry(un, key, entry) == (key :> entry) @@ un

\* app.post('/understanding/:articleId')
PostUnderstanding(key, summary, fs, now) ==
  /\ Accepting
  /\ clock' = now
  /\ understanding' = SetEntry(understanding, key, UnderstandingEntry(summary, fs))
  /\ UNCHANGED <<users, articles, config, pushSubscriptions>>
  /\ SaveAndRespond("POST /understanding/:articleId",
                    [key |-> key, summary |-> summary, files |-> fs],
                    UnderstandingEntry(summary, fs), 0, understanding'[key])

\* what GET /understanding/:articleId answers in the current state
UnderstandingOf(key) ==
  IF key \in DOMAIN understanding THEN understanding[key]
  ELSE [summary |-> "", materials |-> <<>>]

-----------------------------------------------------------------------------
\* The other read routes of the cloud and file variants

\* a route that answers from the collections: res.json(body)
Read(op, req, body) ==
  /\ variant # "mongo"
  /\ Accepting
  /\ last' = Obs(op, "response", 200, req, body)
  /\ nev' = nev + 1
  /\ UNCHANGED <<variant, db, phase, hydr, store, remote, uploads, pending, clock,
                 budget, nup>>

\* app.get('/articles')
GetArticles == Read("GET /articles", EmptyObject, StringifyArray(articles))

\* app.get('/config')
GetConfig == Read("GET /config", EmptyObject, StringifyObject(config))

\* app.get('/understanding')
GetUnderstanding == Read("GET /understanding", EmptyObject, understanding)

\* app.get('/understanding/:articleId')
GetUnderstandingOf(key) ==
  Read("GET /understanding/:articleId", [key |-> key], UnderstandingOf(key))

\* app.get('/users'): a route of the cloud10 variant alone
GetUsers ==
  /\ variant = "cloud10"
  /\ Read("GET /users", EmptyObject,
          [i \in 1..Len(users) |-> WithoutPassword(users[i])])

-----------------------------------------------------------------------------
\* Push subscriptions

\* req.body of POST /push/subscribe and POST /push/unsubscribe
Subscriptions == {[endpoint |-> "e1", keys |-> "k1"], [endpoint |-> "e1", keys |-> "k2"],
                  [endpoint |-> "e2", keys |-> "k1"]}

\* pushSubscriptions.find(s => s.endpoint === endpoint); findOne({ endpoint })
HasEndpoint(s, e) == \E i \in 1..Len(s) : s[i].endpoint = e

\* if (!pushSubscriptions.find(...)) pushSubscriptions.push({ endpoint, keys })
Subscribed(s, b) == IF HasEndpoint(s, b.endpoint) THEN s ELSE Append(s, b)

\* s.filter(x => x.endpoint !== endpoint)
WithoutEndpoint(s, e) == SelectSeq(s, LAMBDA x : x.endpoint # e)

\* app.post('/push/subscribe') of the cloud variants: no save is started
PushSubscribe(b) ==
  /\ IsCloud
  /\ Accepting
  /\ pushSubscriptions' = Subscribed(pushSubscriptions, b)
  /\ last' = Obs("POST /push/subscribe", "response", 200, [b |-> b], EmptyObject)
  /\ nev' = nev + 1
  /\ UNCHANGED <<variant, db, phase, hydr, users, articles, config, understanding,
                 remote, uploads, pending, clock, budget, nup>>

\* app.post('/push/unsubscribe') of the cloud variants
PushUnsubscribe(b) ==
  /\ IsCloud
  /\ Accepting
  /\ pushSubscriptions' = WithoutEndpoint(pushSubscriptions, b.endpoint)
  /\ last' = Obs("POST /push/unsubscribe", "response", 200, [b |-> b], EmptyObject)
  /\ nev' = nev + 1
  /\ UNCHANGED <<variant, db, phase, hydr, users, articles, config, understanding,
                 remote, uploads, pending, clock, budget, nup>>

-----------------------------------------------------------------------------
\* The mongo implementation: config, push subscriptions and understanding

\* a mongo handler suspended at await doc.save(): rec.isNew tells an insert
\* from an update, rec.doc is the document; index is the number of the
\* request, which tells two suspended handlers of one route apart
Awaiting(op, req, isNew, doc) ==
  [op |-> op, upload |-> 0, req |-> req, rec |-> [isNew |-> isNew, doc |-> doc],
   index |-> nev + 1]

\* new Config(): the defaults of configSchema, which has none for
\* about_description and contact_website
SchemaDefaults ==
  [k \in DOMAIN DefaultConfig \ {"about_description", "contact_website"} |->
     DefaultConfig[k]]

\* the paths of b that configSchema declares (strict mode drops the others)
SchemaPaths(b) == [k \in DOMAIN b \cap DOMAIN DefaultConfig |-> b[k]]

\* the document doc.save() leaves in the collection: inserted when new, else
\* the modified paths set on the document with that _id
Saved(coll, rec) ==
  IF rec.isNew THEN Append(coll, rec.doc)
  ELSE [i \in 1..Len(coll) |->
          IF coll[i]._id = rec.doc._id THEN Spread(coll[i], rec.doc) ELSE coll[i]]

\* the step of a mongo route up to its first await of a save, or to its
\* response when it saves nothing
MongoStep(op, req, saves, isNew, doc, body) ==
  /\ variant = "mongo"
  /\ Accepting
  /\ nev' = nev + 1
  /\ IF saves
     THEN /\ pending' = pending \cup {Awaiting(op, req, isNew, doc)}
          /\ last' = Obs(op, "await", 0, req, doc)
     ELSE /\ pending' = pending
          /\ last' = Obs(op, "response", 200, req, body)
  /\ UNCHANGED <<variant, db, phase, hydr, store, remote, uploads, clock, budget, nup>>

\* app.get('/config') (mongo): findOne; a missing document is created and saved
MongoGetConfig ==
  IF db.configs = <<>>
  THEN MongoStep("GET /config", EmptyObject, TRUE, TRUE,
                 Spread(SchemaDefaults, [_id |-> nev + 1]), EmptyObject)
  ELSE MongoStep("GET /config", EmptyObject, FALSE, FALSE, EmptyObject, db.configs[1])

\* app.post('/config') (mongo): new Config(req.body), or Object.assign(config,
\* req.body), then save
MongoPostConfig(b) ==
  IF db.configs = <<>>
  THEN MongoStep("POST /config", [b |-> b], TRUE, TRUE,
                 Spread(Spread(SchemaDefaults, SchemaPaths(b)), [_id |-> nev + 1]),
                 EmptyObject)
  ELSE MongoStep("POST /config", [b |-> b], TRUE, FALSE,
                 Spread(SchemaPaths(b), [_id |-> db.configs[1]._id]), EmptyObject)

\* app.post('/push/subscribe') (mongo): findOne({ endpoint }), then save
MongoSubscribe(b) ==
  MongoStep("POST /push/subscribe", [b |-> b], ~HasEndpoint(db.subs, b.endpoint),
            TRUE, Spread(b, [_id |-> nev + 1]), EmptyObject)

\* Understanding.findOne({ articleId }): the first document that matches, as
\* a sequence of at most one document
FindUnderstanding(coll, key) ==
  IF \E i \in 1..Len(coll) : coll[i].articleId = key
  THEN LET i == CHOOSE i \in 1..Len(coll) :
                  /\ coll[i].articleId = key
                  /\ \A j \in 1..(i - 1) : coll[j].articleId # key
       IN <<coll[i]>>
  ELSE <<>>

\* app.post('/understanding/:articleId') (mongo): findOne({ articleId }); the
\* document found gets the summary and the materials, a missing one is
\* created; then save
MongoPostUnderstanding(key, summary, fs) ==
  LET found == FindUnderstanding(db.understandings, key)
      req == [key |-> key, summary |-> summary, files |-> fs]
  IN IF found = <<>>
     THEN MongoStep("POST /understanding/:articleId", req, TRUE, TRUE,
                    Spread(UnderstandingEntry(summary, fs),
                           [_id |-> nev + 1, articleId |-> key]), EmptyObject)
     ELSE MongoStep("POST /understanding/:articleId", req, TRUE, FALSE,
                    Spread(UnderstandingEntry(summary, fs),
                           [_id |-> found[1]._id]), EmptyObject)

\* { summary: material.summary, materials: material.materials }
SummaryAndMaterials(found) ==
  IF found = <<>> THEN [summary |-> "", materials |-> <<>>]
  ELSE [summary |-> found[1].summary, materials |-> found[1].materials]

\* app.get('/understanding/:articleId') (mongo)
MongoGetUnderstandingOf(key) ==
  MongoStep("GET /understanding/:articleId", [key |-> key], FALSE, FALSE,
            EmptyObject, SummaryAndMaterials(FindUnderstanding(db.understandings, key)))

\* what the handler h sends after its save
MongoResponseBody(h) ==
  IF h.op = "POST /understanding/:articleId"
  THEN SummaryAndMaterials(<<h.rec.doc>>)
  ELSE h.rec.doc

\* await doc.save() of the suspended handler h completes; h responds
MongoSave(h) ==
  /\ variant = "mongo"
  /\ h \in pending
  /\ db' = CASE h.op = "POST /push/subscribe" ->
                  [db EXCEPT !.subs = Saved(@, h.rec)]
             [] h.op = "POST /understanding/:articleId" ->
                  [db EXCEPT !.understandings = Saved(@, h.rec)]
             [] OTHER -> [db EXCEPT !.configs = Saved(@, h.rec)]
  /\ pending' = pending \ {h}
  /\ last' = Obs(h.op, "response", 200, h.req, MongoResponseBody(h))
  /\ UNCHANGED <<variant, phase, hydr, store, remote, uploads, clock, nev, budget, nup>>

\* PushSubscription.deleteOne({ endpoint }): the first document that matches
DeleteOne(coll, e) ==
  IF HasEndpoint(coll, e)
  THEN LET i == CHOOSE i \in 1..Len(coll) :
                  /\ coll[i].endpoint = e
                  /\ \A j \in 1..(i - 1) : coll[j].endpoint # e
       IN Splice(coll, i)
  ELSE coll

\* app.post('/push/unsubscribe') (mongo)
MongoUnsubscribe(b) ==
  /\ variant = "mongo"
  /\ Accepting
  /\ nev' = nev + 1
  /\ db' = [db EXCEPT !.subs = DeleteOne(@, b.endpoint)]
  /\ last' = Obs("POST /push/unsubscribe", "response", 200, [b |-> b], EmptyObject)
  /\ UNCHANGED <<variant, phase, hydr, store, remote, uploads, pending, clock,
                 budget, nup>>

-----------------------------------------------------------------------------
\* The snapshot in flight

\* what the handler h sends when it resumes after its save
ResponseBody(h) ==
  CASE h.op = "PUT /articles/:id" ->
         IF h.index <= Len(articles) THEN StringifyObject(articles[h.index])
         ELSE EmptyObject
    [] h.op = "POST /config" -> config
    [] h.op = "POST /understanding/:articleId" -> understanding[h.req.key]
    [] h.op = "POST /auth/register" -> WithoutPassword(h.rec)
    [] h.op = "POST /articles" -> StringifyObject(h.rec)
    [] OTHER -> EmptyObject

\* ResponseStatus of a handler that reports the failed save
ResponseStatusChecked(ok) == IF ok THEN 200 ELSE 500

\* the status of that response: saveDataToCloudinary has caught the upload's
\* error and returned false, and no handler looks at what it returned
ResponseStatus(ok) == 200

\* WireText of an upload that serialises the collections when it is sent
WireTextLive(u) ==
  StringifyData(Mem(users, articles, config, understanding), clock)

\* the bytes the remote store receives for the upload u
WireText(u) == u.text

\* the upload u ends: the remote store has written the object (ok) or the
\* callback reports an error; saveDataToCloudinary returns to a handler that
\* awaits it, and that handler sends its response
UploadDone(u, ok) ==
  /\ u \in uploads
  /\ uploads' = uploads \ {u}
  /\ remote' = IF ok THEN <<[text |-> WireText(u), taken |-> u.taken,
                            push |-> u.push, by |-> "flush"]>>
               ELSE remote
  /\ IF \E h \in pending : h.upload = u.id
     THEN LET h == CHOOSE h \in pending : h.upload = u.id
          IN /\ pending' = pending \ {h}
             /\ last' = Obs(h.op, IF ok THEN "saved" ELSE "unsaved",
                            ResponseStatus(ok), h.req, ResponseBody(h))
             /\ phase' = IF h.op = "SIGTERM" THEN "exiting" ELSE phase
     ELSE UNCHANGED <<pending, last, phase>>
  /\ UNCHANGED <<variant, db, hydr, store, clock, nev, budget, nup>>

\* setInterval(() => saveDataToCloudinary(), 10000): armed when the module
\* loads, so it also fires while the startup load is in progress
TimerSave(now) ==
  /\ IsCloud
  /\ nev < budget
  /\ nev' = nev + 1
  /\ clock' = now
  /\ uploads' = uploads \cup {NewUpload(Mem(users, articles, config, understanding))}
  /\ nup' = nup + 1
  /\ UNCHANGED <<variant, db, phase, hydr, store, remote, pending, last, budget>>

\* TimerRetry of an interval that is cleared when the last request has
\* been served
TimerCleared(now) ==
  /\ now \notin Now
  /\ UNCHANGED vars

\* the same interval after the last request of the run: it keeps firing
\* every 10 s (30 s) for as long as the process lives, and each firing
\* uploads the collections as they are, whether or not anything changed and
\* whatever became of the upload before.  The firings that follow an upload
\* still in flight are left out (they would start the same upload again),
\* and the upload takes the number the next request would have given it.
TimerRetry(now) ==
  /\ IsCloud
  /\ nev = budget
  /\ uploads = {}
  /\ clock' = now
  /\ uploads' = {NewUpload(Mem(users, articles, config, understanding))}
  /\ UNCHANGED <<variant, db, phase, hydr, store, remote, pending, last, nev,
                 budget, nup>>

\* process.on('SIGTERM', async () => { await saveDataToCloudinary(); ... }):
\* the handler starts the final save and waits for its upload to end
Sigterm(now) ==
  /\ variant = "cloud10"
  /\ phase = "serving"
  /\ nev < budget
  /\ nev' = nev + 1
  /\ clock' = now
  /\ phase' = "stopping"
  /\ uploads' = uploads \cup {NewUpload(Mem(users, articles, config, understanding))}
  /\ nup' = nup + 1
  /\ pending' = pending \cup
        {[op |-> "SIGTERM", upload |-> nup + 1, req |-> EmptyObject,
          rec |-> EmptyObject, index |-> 0]}
  /\ last' = Obs("SIGTERM", "await", 0, EmptyObject, EmptyObject)
  /\ UNCHANGED <<variant, db, hydr, store, remote, budget>>

\* process.exit(0): the statement after the await of the SIGTERM handler
ShutdownExit ==
  /\ phase = "exiting"
  /\ phase' = "exited"
  /\ pending' = {}
  /\ last' = Obs("SIGTERM", "exit", 0, EmptyObject, EmptyObject)
  /\ UNCHANGED <<variant, db, hydr, store, remote, uploads, clock, nev, budget, nup>>

-----------------------------------------------------------------------------
\* loadDataFromCloudinary

\* Hydrated of a load that never assigns users
HydratedNoUsers(doc, c) ==
  Mem(<<>>,
      IF "articles" \in DOMAIN doc THEN doc.articles ELSE <<>>,
      IF "config" \in DOMAIN doc THEN doc.config ELSE c,
      IF "understanding" \in DOMAIN doc THEN doc.understanding ELSE EmptyObject)

\* Hydrated of a load that never assigns understanding
HydratedNoUnderstanding(doc, c) ==
  Mem(IF "users" \in DOMAIN doc THEN doc.users ELSE <<>>,
      IF "articles" \in DOMAIN doc THEN doc.articles ELSE <<>>,
      IF "config" \in DOMAIN doc THEN doc.config ELSE c,
      EmptyObject)

\* data.users || [], data.articles || [], data.config || config,
\* data.understanding || {}
Hydrated(doc, c) ==
  Mem(IF "users" \in DOMAIN doc THEN doc.users ELSE <<>>,
      IF "articles" \in DOMAIN doc THEN doc.articles ELSE <<>>,
      IF "config" \in DOMAIN doc THEN doc.config ELSE c,
      IF "understanding" \in DOMAIN doc THEN doc.understanding ELSE EmptyObject)

\* the catch block: log, keep what is in memory, and let the server listen
LoadFailed ==
  /\ hydr' = "failed"
  /\ phase' = "serving"
  /\ last' = Obs("load", "response", 0, EmptyObject, EmptyObject)
  /\ UNCHANGED <<variant, db, store, remote, uploads, pending, clock, nev, budget, nup>>

\* await cloudinary.api.resource(...): rejects when the object does not
\* exist, and on any network error
LoadResource(ok) ==
  /\ hydr = "resource"
  /\ IF ok /\ remote # <<>>
     THEN /\ hydr' = "download"
          /\ UNCHANGED <<variant, db, phase, store, remote, uploads, pending, clock,
                         last, nev, budget, nup>>
     ELSE LoadFailed

\* the download of result.secure_url returned the text of blob: JSON.parse,
\* then the four assignments
LoadDownload(blob) ==
  /\ hydr = "download"
  /\ IF blob.text.parses
     THEN /\ users' = Hydrated(blob.text.doc, config).users
          /\ articles' = Hydrated(blob.text.doc, config).articles
          /\ config' = Hydrated(blob.text.doc, config).config
          /\ understanding' = Hydrated(blob.text.doc, config).understanding
          /\ hydr' = "loaded"
          /\ phase' = "serving"
          /\ last' = Obs("load", "response", 200, blob, EmptyObject)
          /\ UNCHANGED <<variant, db, pushSubscriptions, remote, uploads, pending,
                         clock, nev, budget, nup>>
     ELSE LoadFailed

\* the download rejects (network error) before any text is parsed
LoadError ==
  /\ hydr = "download"
  /\ LoadFailed

\* the process is stopped and started again: the module is loaded afresh;
\* uploads already handed to the network may still reach the remote store
Restart ==
  /\ IsCloud
  /\ nev < budget
  /\ nev' = nev + 1
  /\ phase' = "loading"
  /\ hydr' = "resource"
  /\ users' = <<>>
  /\ articles' = <<>>
  /\ config' = DefaultConfig
  /\ understanding' = EmptyObject
  /\ pushSubscriptions' = <<>>
  /\ pending' = {}
  /\ last' = Obs("start", "response", 0, EmptyObject, EmptyObject)
  /\ UNCHANGED <<variant, db, remote, uploads, clock, budget, nup>>

-----------------------------------------------------------------------------
\* The requests by collection

ArticleRequests ==
  \/ \E i \in PostInputs, now \in Now : PostArticles(i[1], i[2], now)
  \/ \E p \in Params, i \in PutInputs, now \in Now : PutArticle(p, i[1], i[2], now)
  \/ \E p \in Params, now \in Now : DeleteArticle(p, now)
  \/ \E p \in Params : GetArticle(p)

UserRequests ==
  \/ \E b \in RegisterBodies, now \in Now : Register(b, now)
  \/ \E b \in LoginBodies : Login(b)
  \/ \E p \in Params, now \in Now : DeleteUser(p, now)

ConfigRequests ==
  \E b \in ConfigPayloads, now \in Now : PostConfig(b, now)

UnderstandingRequests ==
  \E key \in UKeys, i \in UnderstandingInputs, now \in Now :
     PostUnderstanding(key, i[1], i[2], now)

\* loadDataFromCloudinary() at startup, in its possible outcomes
Load ==
  \/ \E ok \in BOOLEAN : LoadResource(ok)
  \/ LoadDownload(IF remote = <<>> THEN GarbageBlob ELSE remote[1])
  \/ LoadDownload(GarbageBlob)
  \/ LoadError

Uploads == \E u \in uploads, ok \in BOOLEAN : UploadDone(u, ok)

\* the server under the requests of one collection
NextArticles == ArticleRequests \/ Uploads \/ Load
NextUsers == UserRequests \/ Uploads \/ Load
NextConfig == ConfigRequests \/ Uploads \/ Load
NextUnderstanding == UnderstandingRequests \/ Uploads \/ Load

SpecArticles == Boot(Variants, MaxEvents) /\ [][NextArticles]_vars
SpecUsers == Boot(Variants, MaxEvents) /\ [][NextUsers]_vars
SpecConfig == Boot(Variants, MaxEvents) /\ [][NextConfig]_vars
SpecUnderstanding == Boot(Variants, MaxEvents) /\ [][NextUnderstanding]_vars

\* the durable store: one request of each mutating route, the timer, the
\* uploads, restarts and the startup load
StoreRequests ==
  \/ \E now \in Now : PostArticles(ArticleBody("B", "C", Undef), Pdf, now)
  \/ \E now \in Now : PutArticle([n |-> 1, junk |-> FALSE],
                                 ArticleBody(Undef, "K", "e"), NoFile, now)
  \/ \E now \in Now : DeleteArticle([n |-> 1, junk |-> FALSE], now)
  \/ \E now \in Now : Register(RegisterBody("N", "a@x", "secret1"), now)
  \/ \E now \in Now : DeleteUser([n |-> 1, junk |-> FALSE], now)
  \/ \E now \in Now : PostConfig([app_title |-> "T2"], now)
  \/ \E now \in Now : PostUnderstanding("1", "s", <<Pdf>>, now)

Next ==
  \/ StoreRequests
  \/ Uploads
  \/ \E now \in Now : TimerSave(now)
  \/ Load
  \/ Restart

Init == Boot({"cloud10", "cloud30"}, MaxEvents)

Spec == Init /\ [][Next]_vars

\* the durable store under the requests that delete nothing
NoDeleteRequests ==
  \/ \E now \in Now : PostArticles(ArticleBody("B", "C", Undef), Pdf, now)
  \/ \E now \in Now : PutArticle([n |-> 1, junk |-> FALSE],
                                 ArticleBody(Undef, "K", "e"), NoFile, now)
  \/ \E now \in Now : Register(RegisterBody("N", "a@x", "secret1"), now)
  \/ \E now \in Now : PostConfig([app_title |-> "T2"], now)
  \/ \E now \in Now : PostUnderstanding("1", "s", <<Pdf>>, now)

NextNoDelete ==
  \/ NoDeleteRequests
  \/ Uploads
  \/ \E now \in Now : TimerSave(now)
  \/ Load
  \/ Restart

SpecNoDelete == Init /\ [][NextNoDelete]_vars

\* push subscriptions, their persistence and their uniqueness: the cloud
\* variants with the timer and restarts, and the mongo implementation
PushRequests ==
  \/ \E b \in Subscriptions : PushSubscribe(b)
  \/ \E b \in Subscriptions : PushUnsubscribe(b)

MongoPushRequests ==
  \/ \E b \in Subscriptions : MongoSubscribe(b)
  \/ \E b \in Subscriptions : MongoUnsubscribe(b)
  \/ \E h \in pending : MongoSave(h)

NextPush ==
  \/ PushRequests
  \/ MongoPushRequests
  \/ Uploads
  \/ \E now \in Now : TimerSave(now)
  \/ Load
  \/ Restart

SpecPush == Boot({"cloud10", "cloud30", "mongo"}, DeepEvents) /\ [][NextPush]_vars

\* shutdown: requests, the signal, the uploads and the exit.  The event loop
\* runs the continuation of the SIGTERM handler once its await has returned
\* (weak fairness of ShutdownExit); nothing obliges the remote store to
\* answer an upload.
NextShutdown ==
  \/ \E i \in PostInputs, now \in Now : PostArticles(i[1], i[2], now)
  \/ \E b \in ConfigPayloads, now \in Now : PostConfig(b, now)
  \/ \E now \in Now : Sigterm(now)
  \/ ShutdownExit
  \/ Uploads
  \/ Load

SpecShutdown ==
  Boot({"cloud10"}, MaxEvents) /\ [][NextShutdown]_vars /\ WF_vars(ShutdownExit)

\* the read routes of every implementation, among requests that fill the
\* collections
ReadRequests ==
  \/ GetArticles
  \/ \E p \in Params : GetArticle(p)
  \/ GetConfig
  \/ GetUnderstanding
  \/ \E key \in UKeys : GetUnderstandingOf(key)
  \/ GetUsers
  \/ MongoGetConfig

NextReads ==
  \/ ReadRequests
  \/ \E now \in Now : PostArticles(ArticleBody("A", "C", "d"), NoFile, now)
  \/ \E now \in Now : Register(RegisterBody("N", "a@x", "secret1"), now)
  \/ \E now \in Now : PostUnderstanding("1", "s", <<Pdf>>, now)
  \/ \E b \in ConfigPayloads, now \in Now : PostConfig(b, now)
  \/ \E b \in ConfigPayloads : MongoPostConfig(b)
  \/ \E h \in pending : MongoSave(h)
  \/ Uploads
  \/ Load

SpecReads == Boot(Variants \cup {"mongo"}, MaxEvents) /\ [][NextReads]_vars

\* write-through on a remote store that is empty at the start and answers
\* every upload with success; no restart
UploadsOk == \E u \in uploads : UploadDone(u, TRUE)

NextWriteThrough ==
  \/ StoreRequests
  \/ UploadsOk
  \/ \E now \in Now : TimerSave(now)
  \/ Load

\* no object muk-data/database exists when the process starts
InitEmptyRemote ==
  /\ remote = <<>>
  /\ Init

SpecWriteThrough == InitEmptyRemote /\ [][NextWriteThrough]_vars

\* the periodic flush over the life of the process: requests, then the
\* interval alone.  setInterval fires for as long as the process runs (weak
\* fairness of Timer); the remote store may fail any upload but does not
\* fail for ever (strong fairness of UploadsOk); the process is not
\* restarted.
Timer ==
  \/ \E now \in Now : TimerSave(now)
  \/ \E now \in Now : TimerRetry(now)

NextRetry ==
  \/ \E now \in Now : PostArticles(ArticleBody("B", "C", Undef), Pdf, now)
  \/ \E now \in Now : Register(RegisterBody("N", "a@x", "secret1"), now)
  \/ \E now \in Now : PostConfig([app_title |-> "T2"], now)
  \/ Uploads
  \/ Timer
  \/ Load

SpecRetry ==
  Init /\ [][NextRetry]_vars /\ WF_vars(Timer) /\ SF_vars(UploadsOk)

\* every route that answers with user records, in every implementation that
\* keeps them in memory or in a file; the cloud variants may have loaded
\* users of an earlier deployment
NextPasswords ==
  \/ UserRequests
  \/ GetUsers
  \/ \E h \in UserIdHeaders : Verify(h)
  \/ Uploads
  \/ Load

SpecPasswords == Boot(Variants, MaxEvents) /\ [][NextPasswords]_vars

\* the mongo implementation under concurrent requests to its config and
\* understanding routes: a handler is suspended at its save while others run
NextMongo ==
  \/ MongoGetConfig
  \/ \E b \in ConfigPayloads : MongoPostConfig(b)
  \/ \E key \in UKeys, i \in UnderstandingInputs :
        MongoPostUnderstanding(key, i[1], i[2])
  \/ \E key \in UKeys : MongoGetUnderstandingOf(key)
  \/ \E h \in pending : MongoSave(h)

SpecMongo == Boot({"mongo"}, DeepEvents) /\ [][NextMongo]_vars

\* identity assignment: inserts and deletes alone, one request longer
NextIds ==
  \/ \E now \in Now : PostArticles(ArticleBody("A", "C", "d"), NoFile, now)
  \/ \E now \in Now : PostArticles(ArticleBody("B", "C", Undef), Pdf, now)
  \/ \E now \in Now : DeleteArticle([n |-> clock, junk |-> FALSE], now)
  \/ \E now \in Now : Register(RegisterBody("N", "a@x", "secret1"), now)
  \/ \E now \in Now : Register(RegisterBody("M", "b@x", "secret2"), now)
  \/ \E now \in Now : DeleteUser([n |-> clock, junk |-> FALSE], now)
  \/ Uploads
  \/ Load

SpecIds == Boot(Variants, DeepEvents) /\ [][NextIds]_vars

-----------------------------------------------------------------------------
\* Properties

\* a handler of the route op has just accepted its request: the cloud10
\* handler is at its await, the others have answered 200
Accepted(op) ==
  /\ last.op = op
  /\ \/ last.step = "await"
     \/ last.step = "response" /\ last.status = 200

\* the step is the arrival of a request of the route op
Arrives(op) == nev' = nev + 1 /\ last'.op = op

\* C1: right after a POST /articles was accepted, GET /articles/X for the id
\* X it assigned answers 200 with the title, category, description, authors,
\* institution, publicationDate and pdf fields of the inserted record (a
\* field that was not supplied is absent), also when an earlier insert was
\* made at the same clock value.
C1_InsertThenGetById ==
  Accepted("POST /articles") =>
    LET got == ArticleById([n |-> last.body.id, junk |-> FALSE])
    IN /\ got.status = 200
       /\ \A k \in BodyFields : Prop(got.body, k) = last.req.b[k]
       /\ got.body.pdfFile = last.req.f.present
       /\ got.body.pdfName = last.body.pdfName

C3_DeleteThenGetById ==
  Accepted("DELETE /articles/:id") => ArticleById(last.req.p).status = 404

C5_ConfigMerge ==
  [][Arrives("POST /config")
     => /\ DOMAIN config' = DOMAIN config \cup DOMAIN last'.req.b
        /\ \A k \in DOMAIN config' :
             config'[k] = IF k \in DOMAIN last'.req.b THEN last'.req.b[k]
                          ELSE config[k]]_vars

\* C6: a POST /understanding/:articleId for the id A leaves under A the
\* summary of the request ('' when none was sent) and one material for each
\* file of the request, in order, and nothing else; the entries of every
\* other id are unchanged.
C6_UnderstandingReplace ==
  [][Arrives("POST /understanding/:articleId")
     => LET r == last'.req
            e == understanding'[r.key]
        IN /\ DOMAIN understanding' = DOMAIN understanding \cup {r.key}
           /\ e.summary = (IF r.summary = Undef THEN "" ELSE r.summary)
           /\ Len(e.materials) = Len(r.files)
           /\ \A i \in 1..Len(r.files) :
                /\ e.materials[i].name = r.files[i].originalname
                /\ e.materials[i].size = r.files[i].size
           /\ \A k \in DOMAIN understanding \ {r.key} :
                understanding'[k] = understanding[k]]_vars

\* an update of A has replaced a longer materials list, which an upload
\* still in flight holds, and another id has an entry
C6_Witness ==
  /\ Accepted("POST /understanding/:articleId")
  /\ \E u \in uploads :
       /\ last.req.key \in DOMAIN u.taken.understanding
       /\ Len(u.taken.understanding[last.req.key].materials)
            > Len(understanding[last.req.key].materials)

\* C7: the ids within articles, and within users, are pairwise different.
C7_UniqueIds ==
  /\ \A i, j \in 1..Len(articles) : i # j => articles[i].id # articles[j].id
  /\ \A i, j \in 1..Len(users) : i # j => users[i].id # users[j].id

\* the text is the serialisation of the collections taken at one instant
OneInstant(text, taken) ==
  \E t \in 0..(MaxClock + 1) : text = StringifyData(taken, t)

\* C8: the text of every upload in flight, and of the snapshot a flush has
\* written, is the serialisation of users, articles, config and
\* understanding as they were together at one instant, whatever the handlers
\* have changed since.
C8_FlushConsistency ==
  /\ \A u \in uploads : OneInstant(WireText(u), u.taken)
  /\ \A i \in 1..Len(remote) :
       remote[i].by = "flush" => OneInstant(remote[i].text, remote[i].taken)

\* a handler still awaits its upload, and another handler has changed the
\* articles since that upload's text was built
C8_Witness ==
  \E h \in pending, u \in uploads :
     /\ h.upload = u.id
     /\ u.taken.articles # articles

\* C9: when the upload a handler awaits ends, in success or in failure, the
\* handler answers 200 and the collections stay as the handler left them.
C9_FlushFailureNonFatal ==
  [][((\E u \in uploads : uploads' = uploads \ {u}) /\ pending' # pending)
     => /\ last'.step \in {"saved", "unsaved"}
        /\ last'.status = 200
        /\ store' = store]_vars

\* the save of an accepted POST /articles has failed: the handler has
\* answered 200, the article is in memory and not in the remote snapshot
C9_Witness ==
  /\ last.op = "POST /articles"
  /\ last.step = "unsaved"
  /\ last.status = 200
  /\ \E i \in 1..Len(articles) : articles[i].id = last.body.id
  /\ remote = <<>>

\* C10: when the startup load has failed (no object, download error, text
\* that does not parse) and no request has arrived since, the four
\* collections hold their defaults and the server listens; when it has
\* succeeded, users, articles and understanding hold the snapshot's values,
\* empty for a key the snapshot lacks.
C10_HydrateAllOrNothing ==
  /\ (last.op = "load" /\ last.status = 0) =>
       /\ Mem(users, articles, config, understanding) = DefaultMem
       /\ phase = "serving"
  /\ (last.op = "load" /\ last.status = 200) =>
       LET doc == last.req.text.doc
       IN /\ users = (IF "users" \in DOMAIN doc THEN doc.users ELSE <<>>)
          /\ articles = (IF "articles" \in DOMAIN doc THEN doc.articles ELSE <<>>)
          /\ understanding = (IF "understanding" \in DOMAIN doc
                              THEN doc.understanding ELSE EmptyObject)
          /\ phase = "serving"

\* a load has succeeded on a snapshot that holds understanding entries
C10_Witness ==
  /\ last.op = "load"
  /\ last.status = 200
  /\ "understanding" \in DOMAIN last.req.text.doc
  /\ last.req.text.doc.understanding # EmptyObject

\* a load has failed after a restart, with a snapshot in the remote store
C10_WitnessFailed ==
  /\ last.op = "load"
  /\ last.status = 0
  /\ remote # <<>>
  /\ nev > 0

\* the ids of the records of one kind ("users", "articles") in the snapshot
\* the remote store r holds
RemoteIds(r, kind) ==
  IF r = <<>> THEN {}
  ELSE IF ~r[1].text.parses \/ kind \notin DOMAIN r[1].text.doc THEN {}
  ELSE {r[1].text.doc[kind][i].id : i \in 1..Len(r[1].text.doc[kind])}

\* C11: while no delete request is executed, every user and article record
\* of the remote snapshot is still in the remote snapshot after any request,
\* timer flush, upload, restart or load.
C11_NoRecordLost ==
  [][/\ RemoteIds(remote, "users") \subseteq RemoteIds(remote', "users")
     /\ RemoteIds(remote, "articles") \subseteq RemoteIds(remote', "articles")]_vars

\* C12: when the startup load has read a snapshot that a flush wrote, every
\* push subscription the store held when that snapshot was taken is in
\* pushSubscriptions.
C12_PushPersisted ==
  (last.op = "load" /\ last.status = 200 /\ last.req.by = "flush") =>
    \A i \in 1..Len(last.req.push) :
       \E j \in 1..Len(pushSubscriptions) : pushSubscriptions[j] = last.req.push[i]

\* C13: once SIGTERM has been received and the final save started, the
\* process eventually exits.
C13_ShutdownTerminates == (phase = "stopping") ~> (phase = "exited")

\* C14: config is a record, and every key config holds is still a key of
\* config after any step.
C14_ConfigOnlyGrows ==
  [][DOMAIN config \subseteq DOMAIN config']_vars

\* C15: a POST /auth/register whose email is the email of a stored user
\* answers 400 and leaves users unchanged, and no two stored users have the
\* same email.
C15_EmailUnique ==
  /\ [][(/\ Arrives("POST /auth/register")
         /\ \E i \in 1..Len(users) : users[i].email = last'.req.b.email)
        => /\ last'.status = 400
           /\ users' = users]_vars
  /\ [](\A i, j \in 1..Len(users) : i # j => users[i].email # users[j].email)

\* a complete registration was refused because its email is stored
C15_Witness ==
  /\ last.op = "POST /auth/register"
  /\ last.status = 400
  /\ ~Falsy(last.req.b.name)
  /\ StrLen(last.req.b.password) >= MinPassword
  /\ \E i \in 1..Len(users) : users[i].email = last.req.b.email

\* C16: a POST /auth/login answers 400 when email or password is missing,
\* 200 when a stored user has that email and that password, 401 otherwise,
\* and changes no collection, no snapshot and starts no upload.
C16_LoginOutcome ==
  [][Arrives("POST /auth/login")
     => LET b == last'.req.b
        IN /\ last'.status =
                (IF Falsy(b.email) \/ Falsy(b.password) THEN 400
                 ELSE IF \E i \in 1..Len(users) :
                           users[i].email = b.email /\ users[i].password = b.password
                      THEN 200 ELSE 401)
           /\ UNCHANGED <<store, remote, uploads, pending>>]_vars

\* a login with the email of a stored user and another password was refused
C16_Witness ==
  /\ last.op = "POST /auth/login"
  /\ last.status = 401
  /\ \E i \in 1..Len(users) :
       users[i].email = last.req.b.email /\ users[i].password # last.req.b.password

\* a login with the credentials of a stored user has succeeded
C16_WitnessSuccess ==
  /\ last.op = "POST /auth/login"
  /\ last.status = 200
  /\ \E i \in 1..Len(users) : users[i].email = last.body.email

\* C17: an accepted PUT /articles/:id keeps, in the article it updates,
\* the value of every text field the request does not supply, the id,
\* createdAt and (without an uploaded file) the pdf reference; the number of
\* articles and their ids are unchanged.
C17_ArticleUpdateMerges ==
  [][(Arrives("PUT /articles/:id") /\ last'.status # 404)
     => LET i == FindIndex(articles, last'.req.p)
        IN /\ Len(articles') = Len(articles)
           /\ \A j \in 1..Len(articles) : articles'[j].id = articles[j].id
           /\ articles'[i].createdAt = articles[i].createdAt
           /\ \A k \in BodyFields :
                last'.req.b[k] = Undef => Prop(articles'[i], k) = Prop(articles[i], k)
           /\ ~last'.req.f.present =>
                /\ articles'[i].pdfName = articles[i].pdfName
                /\ articles'[i].pdfFile = articles[i].pdfFile]_vars

\* C18: no two stored push subscriptions have the same endpoint, in the
\* array of the cloud variants and in the collection of the mongo
\* implementation.
C18_PushUnique ==
  /\ \A i, j \in 1..Len(pushSubscriptions) :
       i # j => pushSubscriptions[i].endpoint # pushSubscriptions[j].endpoint
  /\ \A i, j \in 1..Len(db.subs) :
       i # j => db.subs[i].endpoint # db.subs[j].endpoint

\* the read routes
ReadOps == {"GET /articles", "GET /articles/:id", "GET /config", "GET /understanding",
            "GET /understanding/:articleId", "GET /users"}

\* C19: no step of the handler of a read route changes a collection, the
\* remote snapshot, the database or the uploads in flight.
C19_ReadsReadOnly ==
  [][(last' # last /\ last'.op \in ReadOps)
     => UNCHANGED <<store, remote, db, uploads>>]_vars

\* C20: when every request has been answered and every upload that the
\* requests and the timer started has ended with success, the users,
\* articles, config and understanding of the remote snapshot are those in
\* memory.
C20_WriteThrough ==
  (phase = "serving" /\ nup > 0 /\ uploads = {} /\ pending = {}) =>
    /\ remote # <<>>
    /\ remote[1].text.doc.users = StringifyArray(users)
    /\ remote[1].text.doc.articles = StringifyArray(articles)
    /\ remote[1].text.doc.config = StringifyObject(config)
    /\ remote[1].text.doc.understanding = understanding

\* the remote object is a snapshot written by saveDataToCloudinary whose
\* users, articles, config and understanding are those in memory
SnapshotCurrent ==
  /\ remote # <<>>
  /\ remote[1].by = "flush"
  /\ remote[1].text.doc.users = StringifyArray(users)
  /\ remote[1].text.doc.articles = StringifyArray(articles)
  /\ remote[1].text.doc.config = StringifyObject(config)
  /\ remote[1].text.doc.understanding = understanding

\* C21: while the process runs and the remote store does not refuse uploads
\* for ever, whenever the server is serving and the remote snapshot is not
\* the collections in memory (a flush failed, or none has ended yet), a later
\* state has the remote snapshot equal to the collections in memory, with no
\* further request needed.
C21_FailedFlushRetried ==
  (phase = "serving" /\ ~SnapshotCurrent) ~> SnapshotCurrent

\* the flush of the last request failed, and the snapshot holds its record
C21_Witness ==
  /\ last.step = "unsaved"
  /\ nev = budget
  /\ Len(users) + Len(articles) > 0
  /\ SnapshotCurrent

\* C22: a request is handled only when the startup load has ended, with the
\* snapshot loaded or with the load failed, and the server is listening;
\* and whenever the load has ended, either way, the server is listening.
C22_StartupOrder ==
  /\ [][(nev' = nev + 1 /\ last' # last /\ last'.op # "start")
          => (phase = "serving" /\ hydr \in {"loaded", "failed"})]_vars
  /\ [](hydr \in {"loaded", "failed"} => phase = "serving")

\* a request is accepted by a server whose startup load failed
C22_Witness ==
  /\ hydr = "failed"
  /\ phase = "serving"
  /\ Accepted("POST /articles")

\* C23: the Understanding collection holds at most one document per article
\* id, and when a POST /understanding/:articleId has just completed, the
\* document GET /understanding/:articleId finds for that id holds the
\* summary and the materials the POST answered.
C23_UnderstandingKeyed ==
  /\ \A i, j \in 1..Len(db.understandings) :
       i # j => db.understandings[i].articleId # db.understandings[j].articleId
  /\ (last.op = "POST /understanding/:articleId" /\ last.step = "response")
       => SummaryAndMaterials(FindUnderstanding(db.understandings, last.req.key))
            = last.body

\* C24: the Config collection holds at most one document, and when a POST
\* /config has just completed, the document GET /config returns holds the
\* values of the payload for the paths of the schema.
C24_ConfigSingleton ==
  /\ Len(db.configs) <= 1
  /\ (last.op = "POST /config" /\ last.step = "response")
       => \A k \in DOMAIN SchemaPaths(last.req.b) :
             db.configs[1][k] = last.req.b[k]

\* C25: no upload is started while the startup load is in progress, and the
\* remote object is not replaced while it is.
C25_NoFlushBeforeHydrate ==
  [][/\ nup' # nup => phase # "loading"
     /\ (remote' # remote /\ phase = "loading" /\ phase' = "loading")
          => remote'[1].taken # DefaultMem]_vars

\* the routes that answer with user records
UserRoutes ==
  {"POST /auth/register", "POST /auth/login", "GET /auth/verify", "GET /users"}

\* C26: no response of register, login, session verify or GET /users has a
\* password property, in the user it carries or in any user of the list it
\* carries, whatever the users collection holds.
C26_PasswordsNeverReturned ==
  (last.op \in UserRoutes /\ last.step \in {"response", "saved", "unsaved"}) =>
    IF last.op = "GET /users"
    THEN \A i \in DOMAIN last.body : "password" \notin DOMAIN last.body[i]
    ELSE "password" \notin DOMAIN last.body

\* one of these routes has answered with a user whose stored record holds a
\* password
C26_Witness ==
  /\ last.op \in UserRoutes
  /\ last.step \in {"response", "saved", "unsaved"}
  /\ last.status = 200
  /\ \E i \in 1..Len(users) :
       /\ "password" \in DOMAIN users[i]
       /\ IF last.op = "GET /users"
          THEN \E j \in DOMAIN last.body : last.body[j].email = users[i].email
          ELSE last.body.email = users[i].email

====
